---- MODULE Spec2Model ----
(***************************************************************************)
(* Quark browser agent: the agent orchestration loop (background/agent.ts), *)
(* the permission broker, the tool registry and the AGENT_* message        *)
(* handlers of the background worker (background/index.ts).                *)
(*                                                                         *)
(* JavaScript is single threaded: a handler runs from one await to the     *)
(* next without interruption.  Every action below is one such stretch of   *)
(* code; the program counter of a loop names the await it is suspended on. *)
(***************************************************************************)
EXTENDS Integers, Sequences, FiniteSets, TLC

\* ------------------------------------------------------------------ bounds
MaxRuns == 2          \* start / resume requests accepted in one behaviour
MaxStops == 1         \* stop requests in one behaviour
MaxGateway == 2       \* gateway calls answered in one behaviour
MaxStale == 1         \* manual permission responses sent for settled requests
MaxClock == 3         \* hours the clock runs in one behaviour
MaxPanel == 3         \* times the side panel is opened or closed
MaxEvents == 1        \* element-selected events in one behaviour

\* ------------------------------------------------------- program constants
maxIterations == 10

NoId == 0
Tabs == {1, 2}

\* No script: what scripts.find gives when nothing matches, and the
\* activeScript of a run that edits none
NoScript == [id |-> NoId, createdAt |-> 0, run |-> 0]

\* The AgentState the side panel holds before it received one
NoState == [id |-> NoId, state |-> << >>]

\* ------------------------------------------------------------ tool registry
ToolCatalog ==
  { "capture_snapshot", "capture_screenshot", "pick_element", "verify_element",
    "read_page_content", "get_api_endpoints", "call_api", "inject_script" }

TOOL_DEFINITIONS_Snapshot(name) ==
  name \in {"call_api", "inject_script", "capture_snapshot"}

\* requiresPermission flag of the descriptor called name
TOOL_DEFINITIONS(name) ==
  name \in {"call_api", "inject_script"}

toolRequiresPermission_Never(toolName) ==
  FALSE

toolRequiresPermission_UnlessKnown(toolName) ==
  IF toolName \in ToolCatalog THEN TOOL_DEFINITIONS(toolName) ELSE TRUE

\* tool?.requiresPermission ?? false
toolRequiresPermission(toolName) ==
  IF toolName \in ToolCatalog THEN TOOL_DEFINITIONS(toolName) ELSE FALSE

\* What a tool implementation does when it is run: it returns a result with
\* success = true, returns one with success = false, or throws.
ToolOutcomes == {"ok", "fail", "throw"}

execute_Escapes(toolName, outcome) ==
  IF toolName \notin ToolCatalog
  THEN [success |-> FALSE, error |-> "Unknown tool", thrown |-> FALSE]
  ELSE [success |-> outcome = "ok",
        error |-> IF outcome = "ok" THEN "" ELSE "tool error",
        thrown |-> outcome = "throw"]

\* ToolExecutor.execute: the switch on the tool name inside try/catch.
\* thrown: an exception leaves execute (the catch block lets none out).
execute(toolName, outcome) ==
  IF toolName \notin ToolCatalog
  THEN [success |-> FALSE, error |-> "Unknown tool", thrown |-> FALSE]
  ELSE [success |-> outcome = "ok",
        error |-> IF outcome = "ok" THEN "" ELSE "tool error",
        thrown |-> FALSE]

\* ------------------------------------------------------------- environment
\* Tool-call batches the provider answers with (names only; ids are fresh).
Batches ==
  { <<"inject_script", "capture_snapshot">>,
    <<"call_api">>,
    <<"pick_element">>,
    <<"no_such_tool">> }

DefaultBatch == <<"capture_snapshot">>

\* Kinds of tool-call-free provider answers: plain text, text with a fenced
\* code block, no content at all.
FinalKinds == {"text", "code", "empty"}

\* callOpenRouter from the return of fetch: !response.ok, the map of
\* JSON.parse over the tool calls, and the catch around all of it.
callOpenRouter(raw) ==
  IF raw.kind = "http_401"
  THEN [kind |-> "error", batch |-> << >>, error |-> "API Error: 401"]
  ELSE IF raw.kind = "tools" /\ raw.badArgs # {}
  THEN [kind |-> "error", batch |-> << >>,
        error |-> "Request failed: SyntaxError"]
  ELSE [kind |-> raw.kind, batch |-> raw.batch, error |-> ""]

VARIABLES
  activeAgents,         \* agent id -> AgentState, every session object created
  collected,            \* agent ids that cleanupAgents deleted from the map
  tabAgentMap,          \* tab id -> agent id (NoId: no entry)
  pendingPermissions,   \* request id -> PermissionRequest
  permissionResolvers,  \* request id -> the loop whose promise it settles
  timers,               \* request ids whose 5-minute setTimeout is armed
  loops,                \* executions of runAgent, in order of their start
  ids,                  \* next fresh agent / request / tool-call id
  executed,             \* history: invocations of ToolExecutor.execute
  resolved,             \* history: settled permission promises
  staleResponses,       \* history: manual responses to settled requests
  stops,                \* history: stop requests so far
  gatewayCalls,         \* history: gateway calls issued so far
  elementEvents,        \* history: element-selected events so far
  scripts,              \* chrome.storage.local 'scripts': the persisted scripts
  clock,                \* Date.now(), in hours
  ui,                   \* the side panel: open or not, and what it shows
  env                   \* what the environment of this behaviour may do

vars == << activeAgents, collected, tabAgentMap, pendingPermissions,
           permissionResolvers, timers, loops, ids, executed, resolved,
           staleResponses, stops, gatewayCalls, elementEvents, scripts,
           clock, ui, env >>

\* -------------------------------------------------------------- utilities
Remove(f, k) == [x \in DOMAIN f \ {k} |-> f[x]]

\* The part of the state the agent module's functions read and write.
Store ==
  [ activeAgents |-> activeAgents,
    pendingPermissions |-> pendingPermissions,
    permissionResolvers |-> permissionResolvers,
    timers |-> timers,
    loops |-> loops,
    ids |-> ids,
    executed |-> executed,
    resolved |-> resolved,
    gatewayCalls |-> gatewayCalls,
    scripts |-> scripts,
    clock |-> clock,
    ui |-> ui ]

\* The step ends with the store s (worked out once, as after).
Commit(s) ==
  \E after \in {s} :
    /\ activeAgents' = after.activeAgents
    /\ pendingPermissions' = after.pendingPermissions
    /\ permissionResolvers' = after.permissionResolvers
    /\ timers' = after.timers
    /\ loops' = after.loops
    /\ ids' = after.ids
    /\ executed' = after.executed
    /\ resolved' = after.resolved
    /\ gatewayCalls' = after.gatewayCalls
    /\ scripts' = after.scripts
    /\ clock' = after.clock
    /\ ui' = after.ui

\* ------------------------------------------------------ agent session state
\* agent.status = st; statusHist keeps every change of the field together
\* with the place op of the code that made it.
SetStatus(s, a, st, op) ==
  [s EXCEPT !.activeAgents[a].status = st,
            !.activeAgents[a].statusAt =
               IF st = s.activeAgents[a].status THEN @ ELSE s.clock,
            !.activeAgents[a].statusHist =
               IF st = s.activeAgents[a].status THEN @
               ELSE Append(@, [status |-> st, op |-> op])]

SetError(s, a, msg) ==
  [s EXCEPT !.activeAgents[a].error = msg]

notifyStateUpdate_Fails(s, a) ==
  IF s.ui.open
  THEN [s EXCEPT !.ui.agentState = [id |-> a, state |-> s.activeAgents[a]]]
  ELSE SetError(SetStatus(s, a, "error", "notify"), a, "no receiver")

\* notifyStateUpdate: the callback sends AGENT_STATE_UPDATE with the session;
\* the listener of an open side panel keeps it as its agentState, and with no
\* panel open the rejection of sendMessage is swallowed.
notifyStateUpdate(s, a) ==
  IF s.ui.open
  THEN [s EXCEPT !.ui.agentState = [id |-> a, state |-> s.activeAgents[a]]]
  ELSE s

\* createAgent at the time clock; statusAt is history: when the status last
\* changed.
createAgent(tab, activeScript) ==
  [ tabId |-> tab,
    status |-> "idle",
    statusHist |-> << [status |-> "idle", op |-> "create"] >>,
    statusAt |-> clock,
    activeScriptId |-> activeScript.id,
    updatedAt |-> clock,
    error |-> "",
    tasks |-> << >>,
    messages |-> << [role |-> "system", content |-> "prompt",
                     toolCalls |-> << >>, toolCallId |-> NoId] >> ]

\* agent.tasks.push(task); the id of a task is its position in agent.tasks
addTask(s, a, toolName, toolParams) ==
  notifyStateUpdate(
    [s EXCEPT !.activeAgents[a].tasks =
        Append(@, [toolName |-> toolName, toolParams |-> toolParams,
                   status |-> "pending", error |-> "",
                   hist |-> <<"pending">>]),
              !.activeAgents[a].updatedAt = s.clock], a)

LastTask(s, a) == Len(s.activeAgents[a].tasks)

updateTaskStatus(s, a, taskId, status, error) ==
  LET s1 == IF taskId \in 1..Len(s.activeAgents[a].tasks)
            THEN [s EXCEPT !.activeAgents[a].tasks[taskId].status = status,
                           !.activeAgents[a].tasks[taskId].hist = Append(@, status),
                           !.activeAgents[a].tasks[taskId].error =
                               IF error = "" THEN @ ELSE error]
            ELSE s
  IN  notifyStateUpdate([s1 EXCEPT !.activeAgents[a].updatedAt = s.clock], a)

pushMessage_Prepend(s, a, msg) ==
  [s EXCEPT !.activeAgents[a].messages = << msg >> \o @]

pushMessage(s, a, msg) ==
  [s EXCEPT !.activeAgents[a].messages = Append(@, msg)]

ToolMessage(content, callId) ==
  [role |-> "tool", content |-> content, toolCalls |-> << >>,
   toolCallId |-> callId]

\* JSON.stringify of the arguments of a call
JSONstringify(arguments) == << "json", arguments >>

\* tool_calls of a message on the wire
WireCalls(toolCalls) ==
  [i \in 1..Len(toolCalls) |->
     [id |-> toolCalls[i].id, type |-> "function",
      name |-> toolCalls[i].name,
      arguments |-> JSONstringify(toolCalls[i].arguments)]]

\* The callback of agent.messages.map in runAgent: a Message as the
\* provider gets it.  A Message without tool calls has toolCalls = << >>.
WireMessage(m) ==
  IF m.role = "tool"
  THEN [role |-> "tool", content |-> m.content, tool_call_id |-> m.toolCallId]
  ELSE IF m.toolCalls # << >>
  THEN [role |-> m.role, content |-> m.content,
        tool_calls |-> WireCalls(m.toolCalls)]
  ELSE [role |-> m.role, content |-> m.content]

\* const apiMessages = agent.messages.map(...)
PrepareMessages(s, l) ==
  LET messages == s.activeAgents[s.loops[l].agentId].messages IN
  [s EXCEPT !.loops[l].apiMessages =
      [i \in 1..Len(messages) |-> WireMessage(messages[i])]]

\* agent.messages.push(toolResultMsg); apiMessages.push({role: 'tool', ...})
pushToolResult(s, l, content, callId) ==
  [pushMessage(s, s.loops[l].agentId, ToolMessage(content, callId))
     EXCEPT !.loops[l].apiMessages =
              Append(@, [role |-> "tool", content |-> content,
                         tool_call_id |-> callId])]

\* -------------------------------------------------------------- agent loop
newLoop(a, activeScript) ==
  [ agentId |-> a, pc |-> "getConfig", iterationCount |-> 0,
    apiMessages |-> << >>,           \* const apiMessages, once prepared
    activeScript |-> activeScript,   \* the script this run edits, or NoScript
    script |-> NoScript,             \* const script of the final response
    scriptsRead |-> {},              \* const scripts of saveScript
    rejected |-> FALSE,              \* history: an exception ended runAgent
    config |-> "unread",    \* const config: "key" or "nokey" once getConfig returned
    toolCalls |-> << >>, idx |-> 0, taskId |-> NoId, requestId |-> NoId,
    resps |-> << >>,        \* history: kinds of the gateway answers received
    stoppedAt |-> "",       \* history: the await a stop request found it on
    stoppedIdx |-> 0 ]

SetPc(s, l, pc) == [s EXCEPT !.loops[l].pc = pc]

\* if (iterationCount >= maxIterations) {...} and the return of runAgent
AfterLoop(s, l) ==
  LET a == s.loops[l].agentId
      s1 == IF s.loops[l].iterationCount >= maxIterations
            THEN notifyStateUpdate(
                   SetError(SetStatus(s, a, "error", "exhausted"), a,
                            "Maximum iterations reached"), a)
            ELSE s
  IN  SetPc(s1, l, "returned")

WhileCondition_Inclusive(s, l) ==
  /\ s.activeAgents[s.loops[l].agentId].status = "running"
  /\ s.loops[l].iterationCount <= maxIterations

\* while (agent.status === 'running' && iterationCount < maxIterations)
WhileCondition(s, l) ==
  /\ s.activeAgents[s.loops[l].agentId].status = "running"
  /\ s.loops[l].iterationCount < maxIterations

LoopTop_TaskOnce(s, l) ==
  LET a == s.loops[l].agentId IN
  IF WhileCondition(s, l)
  THEN LET s1 == [s EXCEPT !.loops[l].iterationCount = @ + 1,
                           !.gatewayCalls = @ + 1]
           s2 == IF s.loops[l].iterationCount = 0
                 THEN addTask(s1, a, "llm", NoId)
                 ELSE s1
       IN  [s2 EXCEPT !.loops[l].taskId = LastTask(s2, a),
                      !.loops[l].pc = "callOpenRouter"]
  ELSE AfterLoop(s, l)

\* Top of the while loop up to the await of callOpenRouter.
LoopTop(s, l) ==
  LET a == s.loops[l].agentId IN
  IF WhileCondition(s, l)
  THEN LET s1 == [s EXCEPT !.loops[l].iterationCount = @ + 1,
                           !.gatewayCalls = @ + 1]
           s2 == addTask(s1, a, "llm", NoId)
       IN  [s2 EXCEPT !.loops[l].taskId = LastTask(s2, a),
                      !.loops[l].pc = "callOpenRouter"]
  ELSE AfterLoop(s, l)

CurrentCall(s, l) == s.loops[l].toolCalls[s.loops[l].idx]

\* updateTaskStatus(in_progress) and the call of toolExecutor.execute
Execute(s, l) ==
  LET a == s.loops[l].agentId
      call == CurrentCall(s, l)
      s1 == updateTaskStatus(s, a, s.loops[l].taskId, "in_progress", "")
  IN  [s1 EXCEPT !.executed = @ \cup {[agentId |-> a, toolName |-> call.name,
                                        toolParams |-> call.arguments]},
                 !.loops[l].pc = "execute"]

\* requestPermission up to the await of its promise
requestPermission(s, l) ==
  LET a == s.loops[l].agentId
      call == CurrentCall(s, l)
      id == s.ids.request
      request == [agentId |-> a, toolName |-> call.name,
                  toolParams |-> call.arguments]
  IN  [s EXCEPT !.pendingPermissions = @ @@ (id :> request),
                !.permissionResolvers = @ @@ (id :> l),
                !.timers = @ \cup {id},
                !.ids.request = @ + 1,
                !.ui.permissionRequest = IF s.ui.open THEN id ELSE @,
                !.loops[l].requestId = id,
                !.loops[l].pc = "requestPermission"]

\* Body of "for (const toolCall of response.toolCalls)" for the call at idx,
\* up to its first await.
StartCall(s, l) ==
  LET a == s.loops[l].agentId
      call == CurrentCall(s, l)
      s1 == addTask(s, a, call.name, call.arguments)
      s2 == [s1 EXCEPT !.loops[l].taskId = LastTask(s1, a)]
  IN  IF toolRequiresPermission(call.name)
      THEN requestPermission(
             updateTaskStatus(s2, a, s2.loops[l].taskId, "awaiting_permission", ""), l)
      ELSE Execute(s2, l)

\* The next iteration of the for loop, or the "continue" of the while loop.
NextCall(s, l) ==
  IF s.loops[l].idx < Len(s.loops[l].toolCalls)
  THEN StartCall([s EXCEPT !.loops[l].idx = @ + 1], l)
  ELSE LoopTop(notifyStateUpdate(s, s.loops[l].agentId), l)

AfterPermission_Abort(s, l, approved) ==
  LET a == s.loops[l].agentId
      call == CurrentCall(s, l)
      s0 == [s EXCEPT !.loops[l].requestId = NoId]
  IN  IF ~approved
      THEN LoopTop(
             pushMessage(
               updateTaskStatus(s0, a, s0.loops[l].taskId, "failed",
                                "Permission denied by user"),
               a, ToolMessage("denied", call.id)), l)
      ELSE Execute(s0, l)

AfterPermission_FallsThrough(s, l, approved) ==
  LET a == s.loops[l].agentId
      call == CurrentCall(s, l)
      s0 == [s EXCEPT !.loops[l].requestId = NoId]
  IN  IF ~approved
      THEN Execute(
             pushToolResult(
               updateTaskStatus(s0, a, s0.loops[l].taskId, "failed",
                                "Permission denied by user"),
               l, "denied", call.id), l)
      ELSE Execute(s0, l)

\* runAgent after "await requestPermission(...)" returned approved
AfterPermission(s, l, approved) ==
  LET a == s.loops[l].agentId
      call == CurrentCall(s, l)
      s0 == [s EXCEPT !.loops[l].requestId = NoId]
  IN  IF ~approved
      THEN NextCall(
             pushToolResult(
               updateTaskStatus(s0, a, s0.loops[l].taskId, "failed",
                                "Permission denied by user"),
               l, "denied", call.id), l)
      ELSE Execute(s0, l)

\* A resolve function of a promise settles it once; settling wakes the loop
\* awaiting it, which runs on in the same turn of the event loop.
Resolve(s, l, r, request, approved, by) ==
  IF s.loops[l].pc = "requestPermission" /\ s.loops[l].requestId = r
  THEN AfterPermission(
         [s EXCEPT !.resolved = @ \cup
             {[id |-> r, approved |-> approved, by |-> by,
               agentId |-> request.agentId,
               toolName |-> request.toolName,
               toolParams |-> request.toolParams]}],
         l, approved)
  ELSE s

timeoutCallback_Approve(s, r) ==
  IF r \in DOMAIN s.permissionResolvers
  THEN Resolve([s EXCEPT !.permissionResolvers = Remove(@, r),
                         !.pendingPermissions = Remove(@, r)],
               s.permissionResolvers[r], r, s.pendingPermissions[r], TRUE, "timeout")
  ELSE s

timeoutCallback_LeavesRecord(s, r) ==
  IF r \in DOMAIN s.permissionResolvers
  THEN Resolve([s EXCEPT !.permissionResolvers = Remove(@, r)],
               s.permissionResolvers[r], r, s.pendingPermissions[r], FALSE, "timeout")
  ELSE s

\* The callback of setTimeout(..., 300000) in requestPermission
timeoutCallback(s, r) ==
  IF r \in DOMAIN s.permissionResolvers
  THEN Resolve([s EXCEPT !.permissionResolvers = Remove(@, r),
                         !.pendingPermissions = Remove(@, r)],
               s.permissionResolvers[r], r, s.pendingPermissions[r], FALSE, "timeout")
  ELSE s

handlePermissionResponse_KeepResolver(s, requestId, approved) ==
  IF requestId \in DOMAIN s.permissionResolvers
  THEN Resolve([s EXCEPT !.pendingPermissions = Remove(@, requestId)],
               s.permissionResolvers[requestId], requestId,
               IF requestId \in DOMAIN s.pendingPermissions
               THEN s.pendingPermissions[requestId]
               ELSE [agentId |-> NoId, toolName |-> "", toolParams |-> NoId],
               approved, "user")
  ELSE s

handlePermissionResponse_AlsoOldest(s, requestId, approved) ==
  LET answer(st, r) ==
        IF r \in DOMAIN st.permissionResolvers
        THEN Resolve([st EXCEPT !.permissionResolvers = Remove(@, r),
                                !.pendingPermissions = Remove(@, r)],
                     st.permissionResolvers[r], r, st.pendingPermissions[r],
                     approved, "user")
        ELSE st
      s1 == answer(s, requestId)
      others == DOMAIN s1.permissionResolvers
  IN  IF others = {} THEN s1
      ELSE answer(s1, CHOOSE r \in others : \A y \in others : r <= y)

handlePermissionResponse(s, requestId, approved) ==
  IF requestId \in DOMAIN s.permissionResolvers
  THEN Resolve([s EXCEPT !.permissionResolvers = Remove(@, requestId),
                         !.pendingPermissions = Remove(@, requestId)],
               s.permissionResolvers[requestId], requestId,
               s.pendingPermissions[requestId], approved, "user")
  ELSE s

AfterConfig_PushFirst(s, l, hasKey) ==
  LET a == s.loops[l].agentId
      s0 == pushMessage(
              [s EXCEPT !.loops[l].config = IF hasKey THEN "key" ELSE "nokey"],
              a, [role |-> "user", content |-> "userMessage",
                  toolCalls |-> << >>, toolCallId |-> NoId])
  IN
  IF ~hasKey
  THEN SetPc(SetError(SetStatus(s0, a, "error", "config"), a,
                      "OpenRouter API key not configured"), l, "returned")
  ELSE LoopTop(SetStatus(s0, a, "running", "run"), l)

\* runAgent from the return of getConfig to the first await of the loop
AfterConfig(s, l, hasKey) ==
  LET a == s.loops[l].agentId
      s0 == [s EXCEPT !.loops[l].config = IF hasKey THEN "key" ELSE "nokey"]
  IN
  IF ~hasKey
  THEN SetPc(notifyStateUpdate(
               SetError(SetStatus(s0, a, "error", "config"), a,
                        "OpenRouter API key not configured"), a), l, "returned")
  ELSE LoopTop(
         PrepareMessages(
           pushMessage(SetStatus(s0, a, "running", "run"), a,
                       [role |-> "user", content |-> "userMessage",
                        toolCalls |-> << >>, toolCallId |-> NoId]), l), l)

\* "Mark as completed", break, and what follows the while loop
Completed(s, l) ==
  LET a == s.loops[l].agentId IN
  AfterLoop(notifyStateUpdate(SetStatus(s, a, "completed", "final"), a), l)

\* The GeneratedScript runAgent builds when the final content has a fenced
\* code block: id and createdAt of the script being edited, or fresh ones.
\* run is history: the run whose code the script holds.
NewScript(s, l) ==
  LET activeScript == s.loops[l].activeScript IN
  [id |-> IF activeScript.id # NoId THEN activeScript.id ELSE s.ids.script,
   createdAt |-> IF activeScript.id # NoId THEN activeScript.createdAt
                 ELSE s.clock,
   run |-> l]

StartSave_SetsId(s, l) ==
  [s EXCEPT !.loops[l].script = NewScript(s, l),
            !.activeAgents[s.loops[l].agentId].activeScriptId =
               NewScript(s, l).id,
            !.ids.script = IF s.loops[l].activeScript.id # NoId THEN @ ELSE @ + 1,
            !.loops[l].pc = "saveScript"]

\* runAgent from the code block match to the await of storage.get in saveScript
StartSave(s, l) ==
  [s EXCEPT !.loops[l].script = NewScript(s, l),
            !.ids.script = IF s.loops[l].activeScript.id # NoId THEN @ ELSE @ + 1,
            !.loops[l].pc = "saveScript"]

\* saveScript between its two awaits: the scripts read, with script put in
\* the place of the one with its id or added
saveScript(stored, script) ==
  {x \in stored : x.id # script.id} \cup {script}

\* scripts.find(s => s.id === id) of AGENT_START and resumeAgent
FindScript(stored, id) ==
  IF \E x \in stored : x.id = id
  THEN CHOOSE x \in stored : x.id = id
  ELSE NoScript

\* The tool calls of a response: the provider numbers its calls itself, and
\* the arguments of a call are particular to it.
MakeCalls(batch, first) ==
  [i \in 1..Len(batch) |->
     [id |-> first + i - 1, name |-> batch[i], arguments |-> first + i - 1]]

AfterGateway_Retry(s, l, resp) ==
  LET a == s.loops[l].agentId
      thinkingTask == s.loops[l].taskId
      s0 == [s EXCEPT !.loops[l].resps = Append(@, resp.kind)]
  IN
  IF resp.kind = "error"
  THEN LoopTop(updateTaskStatus(s0, a, thinkingTask, "failed", resp.error), l)
  ELSE
    LET s1 == updateTaskStatus(s0, a, thinkingTask, "completed", "") IN
    IF resp.kind = "tools"
    THEN LET calls == MakeCalls(resp.batch, s1.ids.call)
             s2 == pushMessage(s1, a, [role |-> "assistant", content |-> "",
                                       toolCalls |-> calls, toolCallId |-> NoId])
         IN  StartCall([s2 EXCEPT !.ids.call = @ + Len(calls),
                                  !.loops[l].apiMessages =
                                     Append(@, [role |-> "assistant",
                                                content |-> "",
                                                tool_calls |-> WireCalls(calls)]),
                                  !.loops[l].toolCalls = calls,
                                  !.loops[l].idx = 1], l)
    ELSE IF resp.kind = "empty"
    THEN Completed(s1, l)
    ELSE LET s2 == pushMessage(s1, a, [role |-> "assistant", content |-> resp.kind,
                                       toolCalls |-> << >>, toolCallId |-> NoId])
         IN  IF resp.kind = "code"
             THEN StartSave(s2, l)
             ELSE Completed(s2, l)

\* runAgent from the return of callOpenRouter to the next await.
\* resp.kind: "error" (resp.error), "tools" (resp.batch) or one of FinalKinds.
AfterGateway(s, l, resp) ==
  LET a == s.loops[l].agentId
      thinkingTask == s.loops[l].taskId
      s0 == [s EXCEPT !.loops[l].resps = Append(@, resp.kind)]
  IN
  IF resp.kind = "error"
  THEN SetPc(notifyStateUpdate(
               SetError(SetStatus(
                 updateTaskStatus(s0, a, thinkingTask, "failed", resp.error),
                 a, "error", "gateway"), a, resp.error), a), l, "returned")
  ELSE
    LET s1 == updateTaskStatus(s0, a, thinkingTask, "completed", "") IN
    IF resp.kind = "tools"
    THEN LET calls == MakeCalls(resp.batch, s1.ids.call)
             s2 == pushMessage(s1, a, [role |-> "assistant", content |-> "",
                                       toolCalls |-> calls, toolCallId |-> NoId])
         IN  StartCall([s2 EXCEPT !.ids.call = @ + Len(calls),
                                  !.loops[l].apiMessages =
                                     Append(@, [role |-> "assistant",
                                                content |-> "",
                                                tool_calls |-> WireCalls(calls)]),
                                  !.loops[l].toolCalls = calls,
                                  !.loops[l].idx = 1], l)
    ELSE IF resp.kind = "empty"
    THEN Completed(s1, l)
    ELSE LET s2 == pushMessage(s1, a, [role |-> "assistant", content |-> resp.kind,
                                       toolCalls |-> << >>, toolCallId |-> NoId])
         IN  IF resp.kind = "code"
             THEN StartSave(s2, l)
             ELSE Completed(s2, l)

\* runAgent from the return of saveScript: activeScriptId, completed, break
AfterSaveScript(s, l) ==
  Completed([s EXCEPT !.activeAgents[s.loops[l].agentId].activeScriptId =
                         s.loops[l].script.id], l)

\* runAgent from the return of toolExecutor.execute to the next await.
\* An exception out of execute would reject the promise of runAgent, which
\* the caller catches and logs.
AfterExecute(s, l, result) ==
  LET a == s.loops[l].agentId
      call == CurrentCall(s, l)
      task == s.loops[l].taskId
      s1 == IF call.name = "pick_element" /\ result.success
            THEN updateTaskStatus(s, a, task, "awaiting_permission", "")
            ELSE s
      s2 == updateTaskStatus(s1, a, task,
                             IF result.success THEN "completed" ELSE "failed",
                             result.error)
  IN  IF result.thrown
      THEN SetPc(s, l, "returned")
      ELSE NextCall(pushToolResult(s2, l,
                                   IF result.success THEN "result_ok"
                                   ELSE "result_fail", call.id), l)

\* ------------------------------------------------------------------ actions
Loops == 1..Len(loops)
Requests == 1..(ids.request - 1)

\* A new user message clears what earlier stop requests found.
Resumed(ls, a) ==
  [l \in 1..Len(ls) |->
     IF ls[l].agentId = a THEN [ls[l] EXCEPT !.stoppedAt = "", !.stoppedIdx = 0]
     ELSE ls[l]]

\* activeAgents.get(agentId) finds the session
InMap(agents, gone, agentId) ==
  agentId \in DOMAIN agents /\ agentId \notin gone

ResumesSession_Never(agents, gone, existingAgentId) ==
  FALSE

ResumesSession_IfPresent(agents, gone, existingAgentId) ==
  InMap(agents, gone, existingAgentId)

\* The negation of the test of AGENT_START that creates a new agent:
\* !agent || agent.status === 'completed' || agent.status === 'error'
ResumesSession(agents, gone, existingAgentId) ==
  /\ InMap(agents, gone, existingAgentId)
  /\ agents[existingAgentId].status \notin {"completed", "error"}

\* What the lookup of payload.activeScriptId in the stored scripts gave
EditChoices ==
  IF env.edit THEN {NoScript} \cup scripts ELSE {NoScript}

\* AGENT_START of handleMessage from "Create or resume agent" on, with the
\* call of runAgent up to its await of getConfig.
AgentStart(tab, activeScript) ==
  /\ Len(loops) < env.maxRuns
  /\ tab \in env.tabs
  /\ LET existingAgentId == tabAgentMap[tab]
         reuse == ResumesSession(activeAgents, collected, existingAgentId)
         agentId == IF reuse THEN existingAgentId ELSE ids.agent
     IN  /\ activeAgents' = IF reuse THEN activeAgents
                            ELSE activeAgents @@
                                   (agentId :> createAgent(tab, activeScript))
         /\ tabAgentMap' = [tabAgentMap EXCEPT ![tab] = agentId]
         /\ ids' = IF reuse THEN ids ELSE [ids EXCEPT !.agent = @ + 1]
         /\ loops' = Append(Resumed(loops, agentId),
                            newLoop(agentId, activeScript))
  /\ UNCHANGED << collected, pendingPermissions, permissionResolvers, timers,
                  executed, resolved, staleResponses, stops, gatewayCalls,
                  elementEvents, scripts, clock, ui, env >>

\* resumeAgent with the call of runAgent up to its await of getConfig
\* (the read of the stored scripts before it changes nothing of this state)
ResumeAgent(a) ==
  /\ Len(loops) < env.maxRuns
  /\ InMap(activeAgents, collected, a)
  /\ loops' = Append(Resumed(loops, a),
                     newLoop(a, FindScript(scripts, activeAgents[a].activeScriptId)))
  /\ UNCHANGED << activeAgents, collected, tabAgentMap, pendingPermissions,
                  permissionResolvers, timers, ids, executed, resolved,
                  staleResponses, stops, gatewayCalls, elementEvents, scripts,
                  clock, ui, env >>

\* getConfig returns to runAgent
ConfigLoaded(l, hasKey) ==
  /\ loops[l].pc = "getConfig"
  /\ Commit(AfterConfig(Store, l, hasKey))
  /\ UNCHANGED << tabAgentMap, collected, elementEvents, staleResponses, stops, env >>

RECURSIVE Answered(_)
\* Gateway calls answered so far, over the first n loops.
Answered(n) ==
  IF n = 0 THEN 0 ELSE Len(loops[n].resps) + Answered(n - 1)

\* fetch returns to callOpenRouter, and callOpenRouter to runAgent
GatewayReturn(l, raw) ==
  /\ loops[l].pc = "callOpenRouter"
  /\ Answered(Len(loops)) < env.maxGateway
  /\ Commit(AfterGateway(Store, l, callOpenRouter(raw)))
  /\ UNCHANGED << tabAgentMap, collected, elementEvents, staleResponses, stops, env >>

\* toolExecutor.execute returns to runAgent
ToolReturn(l, outcome) ==
  /\ loops[l].pc = "execute"
  /\ Commit(AfterExecute(Store, l,
                          execute(CurrentCall(Store, l).name, outcome)))
  /\ UNCHANGED << tabAgentMap, collected, elementEvents, staleResponses, stops, env >>

\* storage.get returns to saveScript, which calls storage.set
SaveScriptRead(l) ==
  /\ loops[l].pc = "saveScript"
  /\ Commit([Store EXCEPT !.loops[l].scriptsRead =
                             saveScript(scripts, loops[l].script),
                          !.loops[l].pc = "storageSet"])
  /\ UNCHANGED << tabAgentMap, collected, elementEvents, staleResponses, stops, env >>

\* storage.set has written and returns to saveScript, and that to runAgent
SaveScriptDone(l) ==
  /\ loops[l].pc = "storageSet"
  /\ Commit(AfterSaveScript([Store EXCEPT !.scripts = loops[l].scriptsRead], l))
  /\ UNCHANGED << tabAgentMap, collected, elementEvents, staleResponses, stops, env >>

\* AGENT_PERMISSION_RESPONSE: the user (or a second click) answers request r
PermissionResponse(r, approved) ==
  /\ r \notin DOMAIN permissionResolvers => staleResponses < MaxStale
  /\ staleResponses' = IF r \in DOMAIN permissionResolvers THEN staleResponses
                       ELSE staleResponses + 1
  /\ Commit(handlePermissionResponse(Store, r, approved))
  /\ UNCHANGED << tabAgentMap, collected, elementEvents, stops, env >>

\* The 5-minute timer of request r fires
TimerFire(r) ==
  /\ r \in timers
  /\ Commit([timeoutCallback(Store, r) EXCEPT !.timers = @ \ {r}])
  /\ UNCHANGED << tabAgentMap, collected, elementEvents, staleResponses, stops, env >>

\* AGENT_STOP: stopAgent
StopAgent(a) ==
  /\ stops < env.maxStops
  /\ InMap(activeAgents, collected, a)
  /\ stops' = stops + 1
  /\ activeAgents' = SetStatus(Store, a, "paused", "stop").activeAgents
  /\ ui' = notifyStateUpdate(SetStatus(Store, a, "paused", "stop"), a).ui
  /\ loops' = [l \in 1..Len(loops) |->
                 IF loops[l].agentId = a /\ loops[l].pc # "returned"
                 THEN [loops[l] EXCEPT !.stoppedAt = loops[l].pc,
                                       !.stoppedIdx = loops[l].idx]
                 ELSE loops[l]]
  /\ UNCHANGED << collected, tabAgentMap, pendingPermissions,
                  permissionResolvers, timers, ids, executed, resolved,
                  staleResponses, gatewayCalls, elementEvents, scripts,
                  clock, env >>

\* The tasks agent.tasks.find of handleElementSelected chooses among
AwaitingPick(s, a) ==
  {i \in 1..Len(s.activeAgents[a].tasks) :
     /\ s.activeAgents[a].tasks[i].status = "awaiting_permission"
     /\ s.activeAgents[a].tasks[i].toolName = "pick_element"}

Min(S) == CHOOSE x \in S : \A y \in S : x <= y

handleElementSelected_AnyAwaiting(s, a) ==
  LET waiting == {i \in 1..Len(s.activeAgents[a].tasks) :
                    s.activeAgents[a].tasks[i].status = "awaiting_permission"}
  IN  IF waiting = {} THEN s
      ELSE pushMessage(updateTaskStatus(s, a, Min(waiting), "completed", ""),
                       a, ToolMessage("element_data", NoId))

handleElementSelected_AnyPickTask(s, a) ==
  LET picks == {i \in 1..Len(s.activeAgents[a].tasks) :
                  s.activeAgents[a].tasks[i].toolName = "pick_element"}
  IN  IF picks = {} THEN s
      ELSE pushMessage(updateTaskStatus(s, a, Min(picks), "completed", ""),
                       a, ToolMessage("element_data", NoId))

\* handleElementSelected for a session of the map; the Message it appends
\* has no toolCallId.
handleElementSelected(s, a) ==
  IF AwaitingPick(s, a) = {} THEN s
  ELSE notifyStateUpdate(
         pushMessage(updateTaskStatus(s, a, Min(AwaitingPick(s, a)),
                                      "completed", ""),
                     a, ToolMessage("element_data", NoId)), a)

\* The ELEMENT_SELECTED listener: the content script of tab reports a pick
ElementSelected(tab) ==
  /\ elementEvents < env.maxEvents
  /\ elementEvents' = elementEvents + 1
  /\ Commit(IF InMap(activeAgents, collected, tabAgentMap[tab])
            THEN handleElementSelected(Store, tabAgentMap[tab])
            ELSE Store)
  /\ UNCHANGED << tabAgentMap, collected, staleResponses, stops, env >>

\* Sessions cleanupAgents may delete; which of them are older than an hour
\* is up to the clock.
Sweepable ==
  {a \in DOMAIN activeAgents \ collected :
     activeAgents[a].status \in {"completed", "error"}}

\* One tick of setInterval(cleanupAgents, 60000) that deletes the sessions old
Cleanup(old) ==
  /\ env.sweep
  /\ old # {}
  /\ old \subseteq Sweepable
  /\ collected' = collected \cup old
  /\ UNCHANGED << activeAgents, tabAgentMap, pendingPermissions,
                  permissionResolvers, timers, loops, ids, executed, resolved,
                  staleResponses, stops, gatewayCalls, elementEvents, scripts,
                  clock, ui, env >>

\* What GET_AGENT_STATE returns to a side panel that mounts on tab
GetAgentState(tab) ==
  LET a == tabAgentMap[tab] IN
  IF InMap(activeAgents, collected, a)
  THEN [id |-> a, state |-> activeAgents[a]]
  ELSE NoState

\* The side panel is opened: ChatInterface mounts, registers its listener
\* and asks for the agent state; its permissionRequest starts as null.
PanelOpen(tab) ==
  /\ ~ui.open
  /\ ui.moves < env.maxPanel
  /\ tab \in env.tabs
  /\ ui' = [open |-> TRUE, permissionRequest |-> NoId,
            agentState |-> GetAgentState(tab), moves |-> ui.moves + 1]
  /\ UNCHANGED << activeAgents, collected, tabAgentMap, pendingPermissions,
                  permissionResolvers, timers, loops, ids, executed, resolved,
                  staleResponses, stops, gatewayCalls, elementEvents, scripts,
                  clock, env >>

\* The side panel is closed: its listener and its component state are gone
PanelClose ==
  /\ ui.open
  /\ ui.moves < env.maxPanel
  /\ ui' = [open |-> FALSE, permissionRequest |-> NoId,
            agentState |-> NoState, moves |-> ui.moves + 1]
  /\ UNCHANGED << activeAgents, collected, tabAgentMap, pendingPermissions,
                  permissionResolvers, timers, loops, ids, executed, resolved,
                  staleResponses, stops, gatewayCalls, elementEvents, scripts,
                  clock, env >>

\* The user answers the prompt the side panel shows: handlePermissionResponse
\* of ChatInterface sends AGENT_PERMISSION_RESPONSE and drops the prompt.
PanelAnswer(approved) ==
  /\ ui.open
  /\ ui.permissionRequest # NoId
  /\ Commit(handlePermissionResponse(
              [Store EXCEPT !.ui.permissionRequest = NoId],
              ui.permissionRequest, approved))
  /\ UNCHANGED << tabAgentMap, collected, elementEvents, staleResponses, stops, env >>

\* getConfig throws: the promise of runAgent is rejected, and the caller
\* logs the error.
ConfigFailed(l) ==
  /\ env.faults
  /\ loops[l].pc = "getConfig"
  /\ loops' = [loops EXCEPT ![l].pc = "returned", ![l].rejected = TRUE]
  /\ UNCHANGED << activeAgents, collected, tabAgentMap, pendingPermissions,
                  permissionResolvers, timers, ids, executed, resolved,
                  staleResponses, stops, gatewayCalls, elementEvents, scripts,
                  clock, ui, env >>

\* storage.get or storage.set throws in saveScript: nothing is written, the
\* promise of runAgent is rejected, and the caller logs the error.
SaveScriptFailed(l) ==
  /\ env.faults
  /\ loops[l].pc \in {"saveScript", "storageSet"}
  /\ loops' = [loops EXCEPT ![l].pc = "returned", ![l].rejected = TRUE]
  /\ UNCHANGED << activeAgents, collected, tabAgentMap, pendingPermissions,
                  permissionResolvers, timers, ids, executed, resolved,
                  staleResponses, stops, gatewayCalls, elementEvents, scripts,
                  clock, ui, env >>

\* The sessions cleanupAgents deletes when it runs at the time now:
\* (completed or error) and agent.updatedAt < oneHourAgo
cleanupAgents(agents, gone, now) ==
  LET oneHourAgo == now - 1 IN
  {a \in DOMAIN agents \ gone :
     /\ agents[a].status \in {"completed", "error"}
     /\ agents[a].updatedAt < oneHourAgo}

\* A tick of setInterval(cleanupAgents, 60000) that finds sessions to delete
Sweep ==
  /\ env.maxClock > 0
  /\ cleanupAgents(activeAgents, collected, clock) # {}
  /\ collected' = collected \cup cleanupAgents(activeAgents, collected, clock)
  /\ UNCHANGED << activeAgents, tabAgentMap, pendingPermissions,
                  permissionResolvers, timers, loops, ids, executed, resolved,
                  staleResponses, stops, gatewayCalls, elementEvents, scripts,
                  clock, ui, env >>

\* An hour passes; the interval fires every minute, so that the sessions
\* that are due have been deleted before.
Tick ==
  /\ clock < env.maxClock
  /\ cleanupAgents(activeAgents, collected, clock) = {}
  /\ clock' = clock + 1
  /\ UNCHANGED << activeAgents, collected, tabAgentMap, pendingPermissions,
                  permissionResolvers, timers, loops, ids, executed, resolved,
                  staleResponses, stops, gatewayCalls, elementEvents, scripts,
                  ui, env >>

\* What fetch brings back: a non-2xx status, a message without tool calls, or
\* a message with tool calls; badArgs are the positions of the calls whose
\* argument string is not valid JSON.
GatewayAnswers(e) ==
  {[kind |-> "http_401", batch |-> << >>, badArgs |-> {}]}
    \cup {[kind |-> k, batch |-> << >>, badArgs |-> {}] : k \in FinalKinds}
    \cup {[kind |-> "tools", batch |-> b, badArgs |-> bad] :
             b \in e.batches, bad \in {{}, {1}}}

InitStore ==
  /\ activeAgents = << >>
  /\ tabAgentMap = [t \in Tabs |-> NoId]
  /\ pendingPermissions = << >>
  /\ permissionResolvers = << >>
  /\ timers = {}
  /\ loops = << >>
  /\ ids = [agent |-> 1, request |-> 1, call |-> 1, script |-> 1]
  /\ executed = {}
  /\ resolved = {}
  /\ staleResponses = 0
  /\ stops = 0
  /\ gatewayCalls = 0
  /\ collected = {}
  /\ elementEvents = 0
  /\ scripts = {}
  /\ clock = 0
  /\ ui = [open |-> FALSE, permissionRequest |-> NoId, agentState |-> NoState,
           moves |-> 0]

\* Start, stop, resume, permission answers and timers in any interleaving,
\* against a provider that keeps to one shape of tool-call batch.
Init ==
  /\ InitStore
  /\ \E b \in Batches :
       env = [batches |-> {b}, maxRuns |-> MaxRuns, maxStops |-> MaxStops,
              maxGateway |-> MaxGateway, maxEvents |-> 0, sweep |-> FALSE,
              tabs |-> {1}, edit |-> FALSE, maxClock |-> 0, maxPanel |-> 0,
              faults |-> FALSE]

Next ==
  \/ \E tab \in Tabs, activeScript \in EditChoices : AgentStart(tab, activeScript)
  \/ \E a \in DOMAIN activeAgents : ResumeAgent(a)
  \/ \E l \in Loops, hasKey \in BOOLEAN : ConfigLoaded(l, hasKey)
  \/ \E l \in Loops : \E raw \in GatewayAnswers(env) : GatewayReturn(l, raw)
  \/ \E l \in Loops, outcome \in ToolOutcomes : ToolReturn(l, outcome)
  \/ \E l \in Loops : SaveScriptRead(l)
  \/ \E l \in Loops : SaveScriptDone(l)
  \/ \E r \in Requests, approved \in BOOLEAN : PermissionResponse(r, approved)
  \/ \E r \in Requests : TimerFire(r)
  \/ \E a \in DOMAIN activeAgents : StopAgent(a)

Spec == Init /\ [][Next]_vars

\* One uninterrupted run against a provider that asks for one plain tool per
\* turn and answers more calls than the loop may make.
InitTurns ==
  /\ InitStore
  /\ env = [batches |-> {DefaultBatch}, maxRuns |-> 1, maxStops |-> 0,
            maxGateway |-> maxIterations + 2, maxEvents |-> 0,
            sweep |-> FALSE, tabs |-> {1}, edit |-> FALSE, maxClock |-> 0,
            maxPanel |-> 0, faults |-> FALSE]

NextTurns ==
  \/ \E tab \in Tabs, activeScript \in EditChoices : AgentStart(tab, activeScript)
  \/ \E l \in Loops, hasKey \in BOOLEAN : ConfigLoaded(l, hasKey)
  \/ \E l \in Loops : \E raw \in GatewayAnswers(env) : GatewayReturn(l, raw)
  \/ \E l \in Loops, outcome \in ToolOutcomes : ToolReturn(l, outcome)
  \/ \E l \in Loops : SaveScriptRead(l)
  \/ \E l \in Loops : SaveScriptDone(l)

SpecTurns == InitTurns /\ [][NextTurns]_vars

\* One run with stop, permission answers and timers.  A timer that is armed
\* fires in the end: setTimeout callbacks are run by the event loop.
InitOne ==
  /\ InitStore
  /\ \E b \in Batches :
       env = [batches |-> {b}, maxRuns |-> 1, maxStops |-> MaxStops,
              maxGateway |-> MaxGateway, maxEvents |-> 0, sweep |-> FALSE,
              tabs |-> {1}, edit |-> FALSE, maxClock |-> 0, maxPanel |-> 0,
              faults |-> FALSE]

NextOne ==
  \/ \E tab \in Tabs, activeScript \in EditChoices : AgentStart(tab, activeScript)
  \/ \E l \in Loops, hasKey \in BOOLEAN : ConfigLoaded(l, hasKey)
  \/ \E l \in Loops : \E raw \in GatewayAnswers(env) : GatewayReturn(l, raw)
  \/ \E l \in Loops, outcome \in ToolOutcomes : ToolReturn(l, outcome)
  \/ \E l \in Loops : SaveScriptRead(l)
  \/ \E l \in Loops : SaveScriptDone(l)
  \/ \E r \in Requests, approved \in BOOLEAN : PermissionResponse(r, approved)
  \/ \E r \in Requests : TimerFire(r)
  \/ \E a \in DOMAIN activeAgents : StopAgent(a)

SpecFair ==
  InitOne /\ [][NextOne]_vars /\ WF_vars(\E r \in Requests : TimerFire(r))

SessionBatches == { <<"call_api">>, <<"pick_element">> }

\* Start requests (there is no caller of resumeAgent in the worker), stop,
\* permission answers, timers, element-selected events and the sweep of
\* terminal sessions, in any interleaving.
InitSessions ==
  /\ InitStore
  /\ \E b \in SessionBatches :
       env = [batches |-> {b}, maxRuns |-> MaxRuns, maxStops |-> MaxStops,
              maxGateway |-> MaxGateway, maxEvents |-> MaxEvents,
              sweep |-> TRUE, tabs |-> {1}, edit |-> FALSE, maxClock |-> 0,
              maxPanel |-> 0, faults |-> FALSE]

NextSessions ==
  \/ \E tab \in Tabs, activeScript \in EditChoices : AgentStart(tab, activeScript)
  \/ \E l \in Loops, hasKey \in BOOLEAN : ConfigLoaded(l, hasKey)
  \/ \E l \in Loops : \E raw \in GatewayAnswers(env) : GatewayReturn(l, raw)
  \/ \E l \in Loops, outcome \in ToolOutcomes : ToolReturn(l, outcome)
  \/ \E l \in Loops : SaveScriptRead(l)
  \/ \E l \in Loops : SaveScriptDone(l)
  \/ \E r \in Requests, approved \in BOOLEAN : PermissionResponse(r, approved)
  \/ \E r \in Requests : TimerFire(r)
  \/ \E a \in DOMAIN activeAgents : StopAgent(a)
  \/ \E tab \in Tabs : ElementSelected(tab)
  \/ \E old \in SUBSET DOMAIN activeAgents : Cleanup(old)

SpecSessions == InitSessions /\ [][NextSessions]_vars

\* Runs on two tabs of one domain that end with a script, the later of
\* which may edit a script already stored.
InitScripts ==
  /\ InitStore
  /\ env = [batches |-> {DefaultBatch}, maxRuns |-> MaxRuns, maxStops |-> 0,
            maxGateway |-> MaxGateway, maxEvents |-> 0, sweep |-> FALSE,
            tabs |-> Tabs, edit |-> TRUE, maxClock |-> 0, maxPanel |-> 0,
            faults |-> FALSE]

NextScripts ==
  \/ \E tab \in Tabs, activeScript \in EditChoices : AgentStart(tab, activeScript)
  \/ \E l \in Loops, hasKey \in BOOLEAN : ConfigLoaded(l, hasKey)
  \/ \E l \in Loops : \E raw \in GatewayAnswers(env) : GatewayReturn(l, raw)
  \/ \E l \in Loops, outcome \in ToolOutcomes : ToolReturn(l, outcome)
  \/ \E l \in Loops : SaveScriptRead(l)
  \/ \E l \in Loops : SaveScriptDone(l)

SpecScripts == InitScripts /\ [][NextScripts]_vars

\* Start, resume and stop on one tab while the hours pass and the sweep runs.
InitClock ==
  /\ InitStore
  /\ env = [batches |-> {DefaultBatch}, maxRuns |-> MaxRuns,
            maxStops |-> MaxStops, maxGateway |-> MaxGateway, maxEvents |-> 0,
            sweep |-> FALSE, tabs |-> {1}, edit |-> FALSE,
            maxClock |-> MaxClock, maxPanel |-> 0, faults |-> FALSE]

NextClock ==
  \/ \E tab \in Tabs, activeScript \in EditChoices : AgentStart(tab, activeScript)
  \/ \E a \in DOMAIN activeAgents : ResumeAgent(a)
  \/ \E l \in Loops, hasKey \in BOOLEAN : ConfigLoaded(l, hasKey)
  \/ \E l \in Loops : \E raw \in GatewayAnswers(env) : GatewayReturn(l, raw)
  \/ \E l \in Loops, outcome \in ToolOutcomes : ToolReturn(l, outcome)
  \/ \E l \in Loops : SaveScriptRead(l)
  \/ \E l \in Loops : SaveScriptDone(l)
  \/ \E a \in DOMAIN activeAgents : StopAgent(a)
  \/ Tick
  \/ Sweep

SpecClock == InitClock /\ [][NextClock]_vars

\* The batches of the runs the side panel watches
PanelBatches == {<<"call_api">>, <<"capture_snapshot", "inject_script">>}

\* One run while the side panel is opened and closed and the storage calls
\* may fail; permission requests are answered from the panel or time out.
InitPanel ==
  /\ InitStore
  /\ \E b \in PanelBatches :
       env = [batches |-> {b}, maxRuns |-> 1, maxStops |-> 0,
              maxGateway |-> MaxGateway, maxEvents |-> 0, sweep |-> FALSE,
              tabs |-> {1}, edit |-> FALSE, maxClock |-> 0,
              maxPanel |-> MaxPanel, faults |-> TRUE]

NextPanel ==
  \/ \E tab \in Tabs, activeScript \in EditChoices : AgentStart(tab, activeScript)
  \/ \E l \in Loops, hasKey \in BOOLEAN : ConfigLoaded(l, hasKey)
  \/ \E l \in Loops : ConfigFailed(l)
  \/ \E l \in Loops : \E raw \in GatewayAnswers(env) : GatewayReturn(l, raw)
  \/ \E l \in Loops, outcome \in ToolOutcomes : ToolReturn(l, outcome)
  \/ \E l \in Loops : SaveScriptRead(l)
  \/ \E l \in Loops : SaveScriptDone(l)
  \/ \E l \in Loops : SaveScriptFailed(l)
  \/ \E approved \in BOOLEAN : PanelAnswer(approved)
  \/ \E r \in Requests : TimerFire(r)
  \/ \E tab \in Tabs : PanelOpen(tab)
  \/ PanelClose

SpecPanel == InitPanel /\ [][NextPanel]_vars

\* Sessions on two tabs: start, resume, stop, permission answers, timers and
\* element-selected events in any interleaving.
InitTabs ==
  /\ InitStore
  /\ \E b \in SessionBatches :
       env = [batches |-> {b}, maxRuns |-> MaxRuns, maxStops |-> MaxStops,
              maxGateway |-> MaxGateway, maxEvents |-> MaxEvents,
              sweep |-> FALSE, tabs |-> Tabs, edit |-> FALSE, maxClock |-> 0,
              maxPanel |-> 0, faults |-> FALSE]

NextTabs ==
  \/ \E tab \in Tabs, activeScript \in EditChoices : AgentStart(tab, activeScript)
  \/ \E a \in DOMAIN activeAgents : ResumeAgent(a)
  \/ \E l \in Loops, hasKey \in BOOLEAN : ConfigLoaded(l, hasKey)
  \/ \E l \in Loops : \E raw \in GatewayAnswers(env) : GatewayReturn(l, raw)
  \/ \E l \in Loops, outcome \in ToolOutcomes : ToolReturn(l, outcome)
  \/ \E l \in Loops : SaveScriptRead(l)
  \/ \E l \in Loops : SaveScriptDone(l)
  \/ \E r \in Requests, approved \in BOOLEAN : PermissionResponse(r, approved)
  \/ \E r \in Requests : TimerFire(r)
  \/ \E a \in DOMAIN activeAgents : StopAgent(a)
  \/ \E tab \in Tabs : ElementSelected(tab)

SpecTabs == InitTabs /\ [][NextTabs]_vars

\* ------------------------------------------------------------------ claims
AgentIds == DOMAIN activeAgents
SensitiveNames == {"inject_script", "call_api"}

SameCall(x, y) ==
  /\ x.agentId = y.agentId
  /\ x.toolName = y.toolName
  /\ x.toolParams = y.toolParams

\* C1: the executor is invoked for an inject_script or call_api call only
\* after a permission request raised for that same call (session, tool name,
\* arguments) was resolved with approved = true; a call whose request was
\* resolved false (by the user or by the timeout) is never executed.
C1_ApprovalBeforeExecution ==
  /\ \A e \in executed :
       e.toolName \in SensitiveNames =>
         \E r \in resolved : r.approved /\ SameCall(r, e)
  /\ \A r \in resolved :
       ~r.approved => ~ \E e \in executed : SameCall(r, e)

C1_Witness ==
  /\ \E e \in executed : e.toolName = "inject_script"
  /\ \E r \in resolved : ~r.approved /\ r.toolName = "inject_script"

Before(hist, x, targets) ==
  \A i \in 1..Len(hist) :
    hist[i] \in targets => \E j \in 1..(i - 1) : hist[j] = x

\* C2: the Task of an inject_script or call_api call has status
\* awaiting_permission before it first has in_progress or failed; the Task of
\* any other tool name except pick_element never has awaiting_permission.
C2_TaskPassesThroughAwaiting ==
  \A a \in AgentIds : \A i \in 1..Len(activeAgents[a].tasks) :
    LET task == activeAgents[a].tasks[i] IN
    /\ task.toolName \in SensitiveNames =>
         Before(task.hist, "awaiting_permission", {"in_progress", "failed"})
    /\ task.toolName \notin SensitiveNames \cup {"pick_element"} =>
         \A j \in 1..Len(task.hist) : task.hist[j] # "awaiting_permission"

C2_Witness ==
  \E a \in AgentIds :
    /\ \E i \in 1..Len(activeAgents[a].tasks) :
         /\ activeAgents[a].tasks[i].toolName = "inject_script"
         /\ activeAgents[a].tasks[i].status = "failed"
    /\ \E i \in 1..Len(activeAgents[a].tasks) :
         /\ activeAgents[a].tasks[i].toolName = "capture_snapshot"
         /\ activeAgents[a].tasks[i].status = "completed"

CallRecord(a, call) ==
  [agentId |-> a, toolName |-> call.name, toolParams |-> call.arguments]

\* What the loop awaiting request r shows once it went on as for a denial.
DenialEffect(r) ==
  LET l == permissionResolvers[r]
      a == loops[l].agentId
      call == loops[l].toolCalls[loops[l].idx]
      task == loops[l].taskId
  IN  /\ r \notin DOMAIN permissionResolvers'
      /\ r \notin DOMAIN pendingPermissions'
      /\ activeAgents'[a].tasks[task].status = "failed"
      /\ activeAgents'[a].tasks[task].error = "Permission denied by user"
      /\ activeAgents'[a].messages =
           Append(activeAgents[a].messages, ToolMessage("denied", call.id))
      /\ CallRecord(a, call) \notin executed'
      /\ IF loops[l].idx < Len(loops[l].toolCalls)
         THEN /\ loops'[l].idx = loops[l].idx + 1
              /\ loops'[l].pc \in {"requestPermission", "execute"}
         ELSE loops'[l].pc \in {"callOpenRouter", "returned"}
      /\ activeAgents' = handlePermissionResponse(Store, r, FALSE).activeAgents
      /\ loops' = handlePermissionResponse(Store, r, FALSE).loops

\* C3: every pending permission request has its timer armed and a loop
\* waiting on it; when the timer of an unresolved request fires the request
\* resolves to false, its record is discarded and the waiting loop goes on
\* as for a denial: Task failed, denial Message appended, next call (or next
\* turn) taken up; and no loop stays blocked on a request forever.
C3_TimeoutActsAsDenial ==
  /\ []<>(DOMAIN permissionResolvers = {})
  /\ [](/\ DOMAIN permissionResolvers \subseteq timers
        /\ \A l \in Loops : loops[l].pc = "requestPermission" =>
             /\ loops[l].requestId \in DOMAIN permissionResolvers
             /\ permissionResolvers[loops[l].requestId] = l)
  /\ [][\A r \in timers \cap DOMAIN permissionResolvers :
          r \notin timers' =>
            /\ DenialEffect(r)
            /\ \E x \in resolved' \ resolved :
                 x.id = r /\ ~x.approved /\ x.by = "timeout"]_vars

C3_Witness ==
  \E x \in resolved : \E a \in AgentIds :
    /\ x.by = "timeout"
    /\ x.agentId = a
    /\ \E i \in 1..Len(activeAgents[a].tasks) :
         /\ activeAgents[a].tasks[i].toolParams = x.toolParams
         /\ activeAgents[a].tasks[i].status = "failed"
    /\ \E i \in 1..Len(activeAgents[a].tasks) :
         activeAgents[a].tasks[i].toolName = "capture_snapshot"

\* Everything but the armed timers and the count of late manual responses.
brokerVars == << activeAgents, collected, tabAgentMap, pendingPermissions,
                 permissionResolvers, loops, ids, executed, resolved, stops,
                 gatewayCalls, elementEvents, scripts, clock, ui, env >>

\* C4: for each permission request exactly one resolver takes effect, the
\* first one, and the loop receives its boolean; a manual response to a
\* request already settled and a timer firing for a request already settled
\* change nothing and wake no loop.
C4_OneResolutionTakesEffect ==
  /\ [](\A r \in Requests : Cardinality({x \in resolved : x.id = r}) <= 1)
  /\ [][/\ staleResponses' # staleResponses =>
             UNCHANGED << brokerVars, timers >>
        /\ \A r \in Requests :
             /\ (r \in timers /\ r \notin timers'
                   /\ r \notin DOMAIN permissionResolvers) =>
                  UNCHANGED << brokerVars, staleResponses >>
             /\ (r \in DOMAIN permissionResolvers
                   /\ r \notin DOMAIN permissionResolvers') =>
                  LET l == permissionResolvers[r]
                      a == loops[l].agentId
                      task == loops[l].taskId
                  IN  \E x \in resolved' :
                        /\ resolved' \ resolved = {x}
                        /\ x.id = r
                        /\ (x.by = "timeout") = (r \notin timers')
                        /\ x.by = "timeout" => ~x.approved
                        /\ activeAgents'[a].tasks[task].status =
                             IF x.approved THEN "in_progress" ELSE "failed"]_vars

C4_Witness ==
  /\ staleResponses > 0
  /\ \E x \in resolved : x.by = "user" /\ x.id \notin timers
  /\ \E x \in resolved : x.by = "timeout"

Status(a) == activeAgents[a].status

ThinkingTasks(a) ==
  {i \in 1..Len(activeAgents[a].tasks) : activeAgents[a].tasks[i].toolName = "llm"}

AllTools(resps) == \A i \in 1..Len(resps) : resps[i] = "tools"

\* The first k-1 answers carried tool calls, the k-th is tool-call-free content.
ToolsThenContent(resps) ==
  /\ Len(resps) >= 1
  /\ resps[Len(resps)] \in {"text", "code"}
  /\ AllTools(SubSeq(resps, 1, Len(resps) - 1))

\* C5: for every k from 1 to 10, when the first k-1 answers of the provider
\* carry tool calls and the k-th is tool-call-free content, the run ends
\* with status completed after exactly k gateway calls.
C5_CompletedAfterKCalls ==
  \A l \in Loops :
    (loops[l].pc = "returned" /\ ToolsThenContent(loops[l].resps)
       /\ Len(loops[l].resps) <= maxIterations) =>
      /\ Status(loops[l].agentId) = "completed"
      /\ gatewayCalls = Len(loops[l].resps)

\* C6: when the provider answers with tool calls on 10 consecutive turns the
\* run ends with status error and message 'Maximum iterations reached',
\* exactly 10 thinking Tasks are recorded, and no 11th gateway call is made.
C6_ErrorAtTheBound ==
  /\ gatewayCalls <= maxIterations
  /\ \A l \in Loops :
       (Len(loops[l].resps) = maxIterations /\ AllTools(loops[l].resps)) =>
         /\ loops[l].pc \in {"execute", "returned"}
         /\ loops[l].pc = "returned" =>
              /\ Status(loops[l].agentId) = "error"
              /\ activeAgents[loops[l].agentId].error = "Maximum iterations reached"
              /\ Cardinality(ThinkingTasks(loops[l].agentId)) = maxIterations
              /\ gatewayCalls = maxIterations

C6_Witness ==
  \E l \in Loops :
    /\ loops[l].pc = "returned"
    /\ Len(loops[l].resps) = maxIterations
    /\ AllTools(loops[l].resps)

\* C7: when stop is requested while the run is suspended on a gateway call,
\* the answer of that call is not acted upon: the loop takes up no tool call
\* and raises no permission request, and the status stays paused until a new
\* user message resumes the session.
C7_StopDuringGatewayCall ==
  \A l \in Loops :
    loops[l].stoppedAt = "callOpenRouter" =>
      /\ Status(loops[l].agentId) = "paused"
      /\ loops[l].pc \in {"callOpenRouter", "returned"}
      /\ loops[l].pc = "returned" => loops[l].requestId = NoId

\* C8: when stop is requested while the run is suspended on a pending
\* permission request, a later approval does not get the sensitive tool
\* executed, nor the remaining calls of that batch.
C8_StopDuringPermissionWait ==
  \A l \in Loops :
    loops[l].stoppedAt = "requestPermission" =>
      \A i \in loops[l].stoppedIdx..Len(loops[l].toolCalls) :
        CallRecord(loops[l].agentId, loops[l].toolCalls[i]) \notin executed

Advancing(l) == loops[l].pc \notin {"getConfig", "returned"}

\* C9: at most one execution of the agent loop advances a session: a start
\* or resume accepted while an earlier loop has not returned never gives two
\* loops that both append Messages and Tasks to the session.
C9_OneLoopPerSession ==
  \A l1, l2 \in Loops :
    (l1 # l2 /\ loops[l1].agentId = loops[l2].agentId) =>
      ~(Advancing(l1) /\ Advancing(l2))

AllowedTransitions ==
  { <<"idle", "running">>, <<"running", "error">>, <<"running", "completed">>,
    <<"running", "paused">>, <<"paused", "running">> }

\* C10: every change of a session's status is idle to running, running to
\* error, running to completed, running to paused or paused to running, apart
\* from the configuration rejection of a start, which sets error.
C10_StatusTransitions ==
  \A a \in AgentIds :
    LET h == activeAgents[a].statusHist IN
    \A i \in 1..(Len(h) - 1) :
      \/ <<h[i].status, h[i + 1].status>> \in AllowedTransitions
      \/ h[i + 1].op = "config"

\* Position of the tool-role Message tagged with call id in the session a
ToolMessagePositions(a, id) ==
  {p \in 1..Len(activeAgents[a].messages) :
     /\ activeAgents[a].messages[p].role = "tool"
     /\ activeAgents[a].messages[p].toolCallId = id}

\* Every call of the batch the loop l took up last has its tool-role Message,
\* and these Messages stand in the order of the calls.
BatchAnswered(l) ==
  LET a == loops[l].agentId
      calls == loops[l].toolCalls
  IN  /\ \A i \in 1..Len(calls) : ToolMessagePositions(a, calls[i].id) # {}
      /\ \A i, j \in 1..Len(calls) :
           i < j => \A p \in ToolMessagePositions(a, calls[i].id) :
                     \A q \in ToolMessagePositions(a, calls[j].id) : p < q

\* The step settles a request of loop l with approved = false.
DeniedNow(l) ==
  /\ loops[l].pc = "requestPermission"
  /\ \E x \in resolved' \ resolved : x.id = loops[l].requestId /\ ~x.approved

\* The loop l, done with the call at idx, takes up the next call of the batch
\* or, the batch done, makes the next gateway call when the session is
\* running and turns are left; the session status is left as it was unless
\* the turns are used up.
GoesOn(l) ==
  LET a == loops[l].agentId
      calls == loops[l].toolCalls
      idx == loops[l].idx
  IN  /\ idx < Len(calls) =>
           /\ loops'[l].idx = idx + 1
           /\ loops'[l].pc \in {"requestPermission", "execute"}
           /\ Len(activeAgents'[a].tasks) = Len(activeAgents[a].tasks) + 1
           /\ activeAgents'[a].tasks[loops'[l].taskId].toolName = calls[idx + 1].name
           /\ activeAgents'[a].tasks[loops'[l].taskId].toolParams =
                calls[idx + 1].arguments
           /\ activeAgents'[a].status = activeAgents[a].status
      /\ (idx = Len(calls) /\ activeAgents[a].status = "running"
            /\ loops[l].iterationCount < maxIterations) =>
           /\ loops'[l].pc = "callOpenRouter"
           /\ loops'[l].iterationCount = loops[l].iterationCount + 1
           /\ gatewayCalls' = gatewayCalls + 1
           /\ activeAgents'[a].status = "running"
      /\ \/ activeAgents'[a].status = activeAgents[a].status
         \/ /\ idx = Len(calls)
            /\ loops[l].iterationCount >= maxIterations
            /\ activeAgents'[a].status = "error"

IssuedCalls(a, id, upto) ==
  UNION { { <<q, i>> : i \in {j \in 1..Len(activeAgents[a].messages[q].toolCalls) :
                                activeAgents[a].messages[q].toolCalls[j].id = id} } :
          q \in {r \in 1..upto : activeAgents[a].messages[r].role = "assistant"} }

GatewayErrors ==
  {callOpenRouter(raw).error :
     raw \in {x \in GatewayAnswers(env) : callOpenRouter(x).kind = "error"}}

\* The step brings loop l an error from its gateway call.
GatewayErrorNow(l) ==
  /\ loops[l].pc = "callOpenRouter"
  /\ loops'[l].resps = Append(loops[l].resps, "error")

\* C13: when a gateway call returns an error, the 'thinking' Task of that
\* turn becomes failed with that error, the session status becomes error with
\* session.error equal to the error message of the gateway, and the run
\* returns: it makes no further gateway call, tool execution or permission
\* request, in that step or later.
C13_GatewayErrorEndsTheRun ==
  /\ [][\A l \in Loops : GatewayErrorNow(l) =>
          LET a == loops[l].agentId
              task == activeAgents'[a].tasks[loops[l].taskId]
          IN  /\ task.toolName = "llm"
              /\ task.status = "failed"
              /\ task.error \in GatewayErrors
              /\ activeAgents'[a].status = "error"
              /\ activeAgents'[a].error = task.error
              /\ loops'[l].pc = "returned"
              /\ gatewayCalls' = gatewayCalls
              /\ executed' = executed
              /\ pendingPermissions' = pendingPermissions
              /\ ids' = ids]_vars
  /\ [][\A l \in Loops : loops[l].pc = "returned" =>
          /\ loops'[l].pc = "returned"
          /\ loops'[l].iterationCount = loops[l].iterationCount
          /\ loops'[l].resps = loops[l].resps
          /\ loops'[l].idx = loops[l].idx
          /\ loops'[l].requestId = loops[l].requestId]_vars

C13_Witness ==
  \E l \in Loops :
    LET a == loops[l].agentId IN
    /\ loops[l].pc = "returned"
    /\ Len(loops[l].resps) = 2
    /\ loops[l].resps[2] = "error"
    /\ activeAgents[a].status = "error"
    /\ activeAgents[a].error = "API Error: 401"
    /\ activeAgents[a].tasks[loops[l].taskId].status = "failed"
    /\ activeAgents[a].tasks[loops[l].taskId].error = "API Error: 401"

\* C14: a tool call whose argument string is not valid JSON is processed
\* with empty arguments and the run continues: the response is not turned
\* into a gateway error (no 'thinking' Task fails on the parse of the
\* arguments) and the session does not go to error because of it.
C14_MalformedArgumentsTolerated ==
  \A a \in AgentIds :
    /\ ~(activeAgents[a].status = "error"
          /\ activeAgents[a].error = "Request failed: SyntaxError")
    /\ \A i \in 1..Len(activeAgents[a].tasks) :
         activeAgents[a].tasks[i].error # "Request failed: SyntaxError"

\* The step brings loop l the result of the tool it is executing.
ToolReturnedNow(l) ==
  /\ loops[l].pc = "execute"
  /\ loops'[l].pc # "execute" \/ loops'[l].idx # loops[l].idx

C16_NoKeyRejectsTheRun ==
  /\ [](\A l \in Loops : loops[l].config = "nokey" =>
          /\ loops[l].pc = "returned"
          /\ loops[l].iterationCount = 0
          /\ loops[l].resps = << >>)
  /\ [][\A l \in Loops :
          (loops[l].pc = "getConfig" /\ loops'[l].config = "nokey") =>
            LET a == loops[l].agentId IN
            /\ activeAgents'[a].status = "error"
            /\ activeAgents'[a].error = "OpenRouter API key not configured"
            /\ activeAgents'[a].messages = activeAgents[a].messages
            /\ activeAgents'[a].tasks = activeAgents[a].tasks
            /\ gatewayCalls' = gatewayCalls]_vars

C16_Witness ==
  \E l \in Loops :
    LET a == loops[l].agentId IN
    /\ loops[l].config = "nokey"
    /\ gatewayCalls = 0
    /\ activeAgents[a].status = "error"
    /\ activeAgents[a].error = "OpenRouter API key not configured"
    /\ Len(activeAgents[a].messages) = 1
    /\ activeAgents[a].tasks = << >>

\* The statuses a Task had, one after the other
TaskHistories ==
  UNION { {activeAgents[a].tasks[i].hist : i \in 1..Len(activeAgents[a].tasks)} :
          a \in AgentIds }

TerminalIsFinal(hist) ==
  \A i \in 1..(Len(hist) - 1) : hist[i] \notin {"completed", "failed"}

\* C17 as claimed: a Task that is completed or failed never gets another
\* status, and the status after awaiting_permission is in_progress or failed,
\* whatever the tool.
C17_TaskStatusOrder ==
  \A hist \in TaskHistories :
    /\ TerminalIsFinal(hist)
    /\ \A i \in 1..(Len(hist) - 1) :
         hist[i] = "awaiting_permission" =>
           hist[i + 1] \in {"in_progress", "failed"}

\* C17 as amended: a Task that is completed or failed never gets another
\* status, under any loop steps and element-selected events; the status after
\* awaiting_permission is in_progress or failed for every tool but
\* pick_element, whose Task leaves awaiting_permission to completed only.
C17_TaskStatusOrderButPick ==
  \A a \in AgentIds : \A t \in 1..Len(activeAgents[a].tasks) :
    LET task == activeAgents[a].tasks[t] IN
    /\ TerminalIsFinal(task.hist)
    /\ \A i \in 1..(Len(task.hist) - 1) :
         task.hist[i] = "awaiting_permission" =>
           IF task.toolName = "pick_element"
           THEN task.hist[i + 1] = "completed"
           ELSE task.hist[i + 1] \in {"in_progress", "failed"}

C17_Witness ==
  /\ elementEvents > 0
  /\ \E a \in AgentIds : \E t \in 1..Len(activeAgents[a].tasks) :
       /\ activeAgents[a].tasks[t].toolName = "pick_element"
       /\ activeAgents[a].tasks[t].hist =
            <<"pending", "in_progress", "awaiting_permission", "completed">>

\* C18: when pick_element reports success its Task is in awaiting_permission
\* at the end of that tool step; an element-selected event for the session
\* sets the first Task in awaiting_permission with tool name pick_element to
\* completed, and changes nothing of the session when there is none.
C18_PickWaitsForTheElement ==
  /\ [][\A l \in Loops :
          (/\ ToolReturnedNow(l)
           /\ loops[l].toolCalls[loops[l].idx].name = "pick_element"
           /\ activeAgents'[loops[l].agentId].messages =
                Append(activeAgents[loops[l].agentId].messages,
                       ToolMessage("result_ok",
                                   loops[l].toolCalls[loops[l].idx].id))) =>
            activeAgents'[loops[l].agentId].tasks[loops[l].taskId].status =
              "awaiting_permission"]_vars
  /\ [][elementEvents' # elementEvents =>
          \A tab \in Tabs :
            LET a == tabAgentMap[tab] IN
            IF InMap(activeAgents, collected, a) /\ AwaitingPick(Store, a) # {}
            THEN activeAgents'[a].tasks[Min(AwaitingPick(Store, a))].status =
                   "completed"
            ELSE activeAgents' = activeAgents]_vars

\* The step is a start request accepted for tab: a loop is added, and the
\* session it runs on belongs to tab.
StartedNow(tab) ==
  /\ Len(loops') = Len(loops) + 1
  /\ activeAgents'[loops'[Len(loops')].agentId].tabId = tab

IsPrefix(s1, s2) ==
  /\ Len(s1) <= Len(s2)
  /\ \A i \in 1..Len(s1) : s1[i] = s2[i]

\* C19: a start request for a tab whose mapped session is in the session map
\* with status idle, running or paused runs on that session: no session is
\* created, the tab mapping is unchanged, and the Messages and Tasks the
\* session had are retained (Messages and Tasks are only ever appended).
C19_StartResumesLiveSession ==
  /\ [][\A tab \in Tabs :
          LET a == tabAgentMap[tab] IN
          (/\ StartedNow(tab)
           /\ InMap(activeAgents, collected, a)
           /\ activeAgents[a].status \in {"idle", "running", "paused"}) =>
            /\ loops'[Len(loops')].agentId = a
            /\ DOMAIN activeAgents' = DOMAIN activeAgents
            /\ ids'.agent = ids.agent
            /\ tabAgentMap' = tabAgentMap
            /\ activeAgents'[a] = activeAgents[a]]_vars
  /\ [][\A a \in AgentIds :
          /\ IsPrefix(activeAgents[a].messages, activeAgents'[a].messages)
          /\ Len(activeAgents[a].tasks) <= Len(activeAgents'[a].tasks)
          /\ \A i \in 1..Len(activeAgents[a].tasks) :
               /\ activeAgents'[a].tasks[i].toolName =
                    activeAgents[a].tasks[i].toolName
               /\ activeAgents'[a].tasks[i].toolParams =
                    activeAgents[a].tasks[i].toolParams]_vars

C19_Witness ==
  /\ Len(loops) = 2
  /\ loops[1].agentId = loops[2].agentId
  /\ loops[2].pc = "callOpenRouter"
  /\ Cardinality(DOMAIN activeAgents) = 1
  /\ LET a == loops[1].agentId IN
       /\ tabAgentMap[activeAgents[a].tabId] = a
       /\ \E i \in 1..(Len(activeAgents[a].statusHist) - 1) :
            /\ activeAgents[a].statusHist[i].status = "paused"
            /\ activeAgents[a].statusHist[i + 1].status = "running"
            /\ activeAgents[a].statusHist[i + 1].op = "run"
       /\ Cardinality({p \in 1..Len(activeAgents[a].messages) :
                         activeAgents[a].messages[p].role = "user"}) = 2

Terminal == {"completed", "error"}

LastResponse(l) ==
  IF loops[l].resps = << >> THEN "" ELSE loops[l].resps[Len(loops[l].resps)]

\* Run l is the only run there was on its session
SoleRun(l) ==
  \A k \in Loops : loops[k].agentId = loops[l].agentId => k = l

\* C22: when the final assistant text of a run has a fenced code block, one
\* script is persisted for the run, with the id and createdAt of the script
\* being edited when there is one and a fresh id otherwise, and afterwards
\* activeScriptId of the session is that id and the status is completed; a
\* final text without a code block persists no script. Stated for the runs
\* that were alone on their session and have returned.
C22_ScriptPersistedForTheRun ==
  \A l \in Loops :
    LET a == loops[l].agentId IN
    (loops[l].pc = "returned" /\ SoleRun(l) /\ LastResponse(l) \in FinalKinds) =>
      IF LastResponse(l) = "code"
      THEN /\ \E x \in scripts :
                /\ x.id = loops[l].script.id
                /\ x.createdAt = loops[l].script.createdAt
           /\ loops[l].activeScript.id # NoId =>
                loops[l].script.id = loops[l].activeScript.id
           /\ activeAgents[a].activeScriptId = loops[l].script.id
           /\ activeAgents[a].status = "completed"
      ELSE /\ loops[l].script = NoScript
           /\ \A x \in scripts : x.run # l

\* C21: the sweep never removes a session that has been reactivated: a
\* session whose status is running, or for which a run has been accepted
\* and is about to start (it waits for the configuration), is in the session
\* map under its id.
C21_ReactivatedSessionStaysInMap ==
  \A a \in AgentIds :
    (\/ activeAgents[a].status = "running"
     \/ \E l \in Loops : loops[l].agentId = a /\ loops[l].pc = "getConfig") =>
      InMap(activeAgents, collected, a)

\* C30: the sweep removes a session only if its status is completed or error
\* and it has been in that status for the one-hour retention window: a
\* session that is not terminal, or that entered its terminal status less
\* than an hour ago, is never removed.
C30_SweepAfterRetentionWindow ==
  [][\A a \in collected' \ collected :
       /\ activeAgents[a].status \in Terminal
       /\ activeAgents[a].statusAt <= clock - 1]_vars

\* Every call of every assistant Message of session a has its tool-role
\* Message.
AllCallsAnswered(a) ==
  \A q \in 1..Len(activeAgents[a].messages) :
    \A i \in 1..Len(activeAgents[a].messages[q].toolCalls) :
      ToolMessagePositions(a, activeAgents[a].messages[q].toolCalls[i].id) # {}

\* C25: within a session, when a gateway call is issued (a loop of the
\* session counts its next turn), every call of every assistant Message of
\* the session has its tool-role Message, under any interleaving of stop,
\* start and resume with the awaits of the loop.
C25_BatchAnsweredBeforeNextCall ==
  [][\A l \in Loops :
       loops'[l].iterationCount > loops[l].iterationCount =>
         AllCallsAnswered(loops[l].agentId)']_vars

NonTerminalTasks(a) ==
  {i \in 1..Len(activeAgents[a].tasks) :
     activeAgents[a].tasks[i].status \in
       {"pending", "in_progress", "awaiting_permission"}}

\* C26: the calls of a turn are processed one at a time in the order
\* returned: a Task is created only when the Tasks created before it are
\* completed or failed, and at any moment at most one Task of a session is
\* pending, in_progress or awaiting_permission.
C26_OneTaskAtATime ==
  \A a \in AgentIds :
    /\ \A i, j \in 1..Len(activeAgents[a].tasks) :
         i < j => activeAgents[a].tasks[i].status \in {"completed", "failed"}
    /\ Cardinality(NonTerminalTasks(a)) <= 1

\* The step is the one in which run l ends with "Mark as completed".
CompletedNow(l) ==
  LET a == loops[l].agentId IN
  /\ loops[l].pc \in {"callOpenRouter", "storageSet"}
  /\ loops'[l].pc = "returned"
  /\ LastResponse(l)' \in FinalKinds
  /\ activeAgents'[a].status = "completed"

\* The final assistant Message of run l is there: the last Message of the
\* session is one of the assistant without tool calls, appended by the step
\* or, when a script was saved in between, left by this run before.
FinalMessageAppended(l) ==
  LET a == loops[l].agentId
      last == activeAgents'[a].messages[Len(activeAgents'[a].messages)]
  IN  /\ last.role = "assistant"
      /\ last.toolCalls = << >>
      /\ \/ Len(activeAgents'[a].messages) = Len(activeAgents[a].messages) + 1
         \/ loops[l].pc = "storageSet"

\* C27: a response without tool calls whose content is absent or empty is
\* surfaced as an error: a run never ends with status completed without
\* having appended a final assistant Message (one without tool calls).
C27_CompletedHasFinalMessage ==
  [][\A l \in Loops :
       CompletedNow(l) =>
         /\ LastResponse(l)' # "empty"
         /\ SoleRun(l) => FinalMessageAppended(l)]_vars

\* C29: session.error is set only while status = error: in every state in
\* which the status is idle, running, paused or completed, after stop or
\* resume of a failed session too, the error field is absent.
C29_ErrorOnlyWithStatusError ==
  \A a \in AgentIds :
    activeAgents[a].status # "error" => activeAgents[a].error = ""

\* C23: while a permission request is pending, a side panel that is open,
\* whenever it was opened, has that request to render its prompt: a request
\* raised while no panel was open is not lost to the panel.
C23_PendingRequestReachesThePanel ==
  \A r \in DOMAIN pendingPermissions :
    ui.open => ui.permissionRequest = r

\* C28: no failure at an await leaves a run unfinished: a session is not
\* left in running with no loop advancing it, also when loading the
\* configuration or persisting the script fails with an exception.
C28_NoRunLeftInRunning ==
  \A a \in AgentIds :
    activeAgents[a].status = "running" =>
      \E l \in Loops : loops[l].agentId = a /\ loops[l].pc # "returned"

\* What a store holds of the sessions: everything but the side panel.
Session(s) ==
  [ activeAgents |-> s.activeAgents,
    pendingPermissions |-> s.pendingPermissions,
    permissionResolvers |-> s.permissionResolvers,
    timers |-> s.timers,
    loops |-> s.loops,
    ids |-> s.ids,
    executed |-> s.executed,
    resolved |-> s.resolved,
    gatewayCalls |-> s.gatewayCalls,
    scripts |-> s.scripts ]

\* The store as it is but with no side panel open
PanelAbsent(s) ==
  [s EXCEPT !.ui = [open |-> FALSE, permissionRequest |-> NoId,
                    agentState |-> NoState, moves |-> s.ui.moves]]

sessionVars == << activeAgents, collected, tabAgentMap, pendingPermissions,
                 permissionResolvers, timers, loops, ids, executed, resolved,
                 gatewayCalls, scripts >>

\* C24: given the same provider responses, tool results and permission
\* resolutions, a session evolves the same whether a side panel is open or
\* not: in every state, each continuation of a loop (after the
\* configuration, a gateway answer, a tool result, a permission resolution
\* by answer or timeout, the script save) leaves the sessions, the pending
\* requests and the stored scripts as it would with no panel open, and
\* opening or closing the panel changes none of them.
C24_PanelDoesNotSteerTheSession ==
  /\ [](\A l \in Loops :
         /\ loops[l].pc = "getConfig" =>
              \A hasKey \in BOOLEAN :
                Session(AfterConfig(Store, l, hasKey)) =
                  Session(AfterConfig(PanelAbsent(Store), l, hasKey))
         /\ loops[l].pc = "callOpenRouter" =>
              \A raw \in GatewayAnswers(env) :
                Session(AfterGateway(Store, l, callOpenRouter(raw))) =
                  Session(AfterGateway(PanelAbsent(Store), l, callOpenRouter(raw)))
         /\ loops[l].pc = "execute" =>
              \A outcome \in ToolOutcomes :
                LET result == execute(CurrentCall(Store, l).name, outcome) IN
                Session(AfterExecute(Store, l, result)) =
                  Session(AfterExecute(PanelAbsent(Store), l, result))
         /\ loops[l].pc = "requestPermission" =>
              /\ \A approved \in BOOLEAN :
                   Session(handlePermissionResponse(Store, loops[l].requestId,
                                                    approved)) =
                     Session(handlePermissionResponse(PanelAbsent(Store),
                                                      loops[l].requestId, approved))
              /\ Session(timeoutCallback(Store, loops[l].requestId)) =
                   Session(timeoutCallback(PanelAbsent(Store), loops[l].requestId))
         /\ loops[l].pc = "storageSet" =>
              Session(AfterSaveScript(Store, l)) =
                Session(AfterSaveScript(PanelAbsent(Store), l)))
  /\ [][ui'.moves # ui.moves => UNCHANGED sessionVars]_vars

\* A run with a tool call ended completed after the panel, open while it
\* ran, had been closed.
C24_Witness ==
  /\ ~ui.open
  /\ ui.moves = 2
  /\ \E l \in Loops :
       /\ loops[l].pc = "returned"
       /\ Len(loops[l].resps) = 2
       /\ activeAgents[loops[l].agentId].status = "completed"

\* The awaits of a run that has started its turns
StartedAwaits ==
  {"callOpenRouter", "requestPermission", "execute", "saveScript", "storageSet"}

\* C31: after every mutation of a session a state snapshot is emitted to the
\* open side panel before the loop next suspends: while a loop of the
\* session the panel shows waits at one of its awaits, the snapshot the
\* panel holds is the session as it is.
C31_SnapshotIsCurrentAtEveryAwait ==
  \A l \in Loops :
    (/\ ui.open
     /\ loops[l].pc \in StartedAwaits
     /\ InMap(activeAgents, collected, loops[l].agentId)) =>
      ui.agentState = [id |-> loops[l].agentId,
                       state |-> activeAgents[loops[l].agentId]]

\* The step is one in which loop l issues a gateway call.
GatewayCallNow(l) ==
  loops'[l].iterationCount > loops[l].iterationCount

\* C32: at every gateway call the message list sent is the wire translation
\* of the full message sequence of the session at that moment: same length
\* and order, assistant echoes with the ids of the calls issued, tool
\* results with their toolCallId.
C32_SentMessagesAreTheHistory ==
  [][\A l \in Loops :
       GatewayCallNow(l) =>
         LET messages == activeAgents'[loops[l].agentId].messages IN
         loops'[l].apiMessages =
           [i \in 1..Len(messages) |-> WireMessage(messages[i])]]_vars

\* The Messages a session had are, after the step, still its first Messages.
MessagesKept(a) ==
  LET old == activeAgents[a].messages
      new == activeAgents'[a].messages
  IN  /\ Len(old) <= Len(new)
      /\ \A i \in 1..Len(old) :
            /\ new[i].role = old[i].role
            /\ new[i].content = old[i].content
            /\ new[i].toolCallId = old[i].toolCallId

\* The Tasks a session had are, after the step, still its first Tasks, each
\* with the tool and parameters it was created with and its past statuses.
TasksKept(a) ==
  LET old == activeAgents[a].tasks
      new == activeAgents'[a].tasks
  IN  /\ Len(old) <= Len(new)
      /\ \A i \in 1..Len(old) :
            /\ new[i].toolName = old[i].toolName
            /\ new[i].toolParams = old[i].toolParams
            /\ Len(old[i].hist) <= Len(new[i].hist)
            /\ SubSeq(new[i].hist, 1, Len(old[i].hist)) = old[i].hist

\* C33: over runs, stop, resume, element-selected events, permission
\* responses and fatal errors the message sequence and the task sequence of
\* a session only grow at the end; no Message or Task is removed or
\* reordered and the role, content and toolCallId of a Message never change.
C33_MessagesAndTasksAppendOnly ==
  [][\A a \in DOMAIN activeAgents :
       /\ a \in DOMAIN activeAgents'
       /\ MessagesKept(a)
       /\ TasksKept(a)]_vars

\* A session that was stopped and resumed, ended in a fatal error and holds
\* a denied tool call between other Messages and Tasks.
C33_Witness ==
  \E a \in DOMAIN activeAgents :
    /\ Len(activeAgents[a].messages) >= 5
    /\ Len(activeAgents[a].tasks) >= 3
    /\ activeAgents[a].status = "error"
    /\ \E i \in 1..Len(activeAgents[a].statusHist) :
          activeAgents[a].statusHist[i].status = "paused"
    /\ \E i \in 1..Len(activeAgents[a].tasks) :
          Len(activeAgents[a].tasks[i].hist) >= 3
    /\ Cardinality({l \in Loops : loops[l].agentId = a}) >= 2

\* Status, Messages and Tasks of session a differ after the step.
SessionChanged(a) ==
  \/ activeAgents'[a].status # activeAgents[a].status
  \/ activeAgents'[a].messages # activeAgents[a].messages
  \/ activeAgents'[a].tasks # activeAgents[a].tasks

\* C34: a step on one session (a step of one of its loops, stop, an answer
\* or a timeout of one of its permission requests, an element-selected
\* event) leaves status, Messages and Tasks of every other session as they
\* were, also while two sessions each wait on a pending request.
C34_OtherSessionsUntouched ==
  [][\A a \in DOMAIN activeAgents :
       SessionChanged(a) =>
         /\ \A b \in DOMAIN activeAgents \ {a} : ~SessionChanged(b)
         /\ \A l \in Loops :
               loops'[l] # loops[l] => loops[l].agentId = a
         /\ \A x \in resolved' \ resolved : x.agentId = a]_vars

\* Two sessions had a pending request at the same time; the later request
\* is resolved and its run has gone on while the earlier one still waits.
C34_Witness ==
  \E r \in DOMAIN pendingPermissions : \E x \in resolved :
    /\ r < x.id
    /\ x.agentId # pendingPermissions[r].agentId
    /\ r \in DOMAIN permissionResolvers
    /\ Len(activeAgents[x.agentId].messages) >= 4
    /\ activeAgents[pendingPermissions[r].agentId].status = "running"

\* Loop l is at a call of a tool the catalog does not have.
AtUnknownTool(l) ==
  /\ loops[l].pc \in {"requestPermission", "execute"}
  /\ CurrentCall(Store, l).name \notin ToolCatalog

CallsInHand(a) ==
  UNION { { loops[l].toolCalls[i].id :
              i \in {j \in 1..Len(loops[l].toolCalls) :
                       \/ j > loops[l].idx
                       \/ /\ j = loops[l].idx
                          /\ loops[l].pc \in {"requestPermission", "execute"}} } :
          l \in {k \in Loops : loops[k].agentId = a} }

\* C36: every tool call of every batch a loop has processed has exactly one
\* tool-role Message with its id in the session, holding the denial payload
\* or the execution result; a call not yet processed has none.
C36_OneToolMessagePerCall ==
  \A a \in AgentIds : \A p \in 1..Len(activeAgents[a].messages) :
    \A j \in 1..Len(activeAgents[a].messages[p].toolCalls) :
      LET id == activeAgents[a].messages[p].toolCalls[j].id
          answers == ToolMessagePositions(a, id)
      IN  IF id \in CallsInHand(a)
          THEN answers = {}
          ELSE /\ Cardinality(answers) = 1
               /\ \A q \in answers :
                     /\ q > p
                     /\ activeAgents[a].messages[q].content
                          \in {"denied", "result_ok", "result_fail"}

\* A batch of two calls is done: the first was denied, the second ran.
C36_Witness ==
  \E l \in Loops :
    LET a == loops[l].agentId
        calls == loops[l].toolCalls
    IN  /\ Len(calls) = 2
        /\ loops[l].pc = "callOpenRouter"
        /\ \E q \in ToolMessagePositions(a, calls[1].id) :
              activeAgents[a].messages[q].content = "denied"
        /\ \E q \in ToolMessagePositions(a, calls[2].id) :
              activeAgents[a].messages[q].content = "result_ok"

RECURSIVE CallsMade(_, _)
\* Gateway calls the runs on session a have made, over the first n loops.
CallsMade(a, n) ==
  IF n = 0 THEN 0
  ELSE (IF loops[n].agentId = a THEN loops[n].iterationCount ELSE 0)
         + CallsMade(a, n - 1)

\* C37: a run has as many 'thinking' Tasks as it made gateway calls, never
\* more than 10; a 'thinking' Task goes from pending straight to completed
\* or failed and is never in_progress or awaiting_permission.
C37_ThinkingTaskPerGatewayCall ==
  /\ \A l \in Loops : loops[l].iterationCount <= maxIterations
  /\ \A a \in AgentIds :
       /\ Cardinality(ThinkingTasks(a)) = CallsMade(a, Len(loops))
       /\ \A i \in ThinkingTasks(a) :
            activeAgents[a].tasks[i].hist \in
              { <<"pending">>, <<"pending", "completed">>,
                <<"pending", "failed">> }
  /\ Len(loops) = 1 => gatewayCalls = loops[1].iterationCount

\* A run used all its turns; its last gateway call failed.
C37_Witness ==
  \E l \in Loops :
    LET a == loops[l].agentId IN
    /\ loops[l].pc = "returned"
    /\ gatewayCalls = maxIterations
    /\ Cardinality(ThinkingTasks(a)) = maxIterations
    /\ \E i \in ThinkingTasks(a) : activeAgents[a].tasks[i].status = "failed"
    /\ \E i \in ThinkingTasks(a) : activeAgents[a].tasks[i].status = "completed"

\* The step is the return of storage.set to a run of session a whose final
\* answer held a script, and the script is in the stored scripts after it.
ScriptPersistedNow(a) ==
  \E l \in Loops :
    /\ loops[l].agentId = a
    /\ loops[l].pc = "storageSet"
    /\ loops'[l].pc = "returned"
    /\ LastResponse(l) = "code"
    /\ loops[l].script \in scripts'
    /\ activeAgents'[a].activeScriptId = loops[l].script.id

\* C38: activeScriptId of a session changes only in the step in which the
\* script of a final answer is persisted; tool calls (an approved
\* inject_script among them), denials, stop, gateway errors and the
\* exhaustion of the iterations leave it as it was.
C38_ActiveScriptChangesOnlyOnSave ==
  [][\A a \in DOMAIN activeAgents :
       activeAgents'[a].activeScriptId # activeAgents[a].activeScriptId =>
         ScriptPersistedNow(a)]_vars

\* A session ran an approved inject_script, kept its activeScriptId through
\* it, and got the id of the script its final answer persisted.
C38_Witness ==
  \E a \in DOMAIN activeAgents :
    /\ activeAgents[a].activeScriptId # NoId
    /\ \E x \in scripts : x.id = activeAgents[a].activeScriptId
    /\ \E e \in executed : e.agentId = a /\ e.toolName = "inject_script"
    /\ \E x \in resolved : x.agentId = a /\ x.approved

\* The pending permission requests of session a
PendingOf(a) ==
  {r \in DOMAIN pendingPermissions : pendingPermissions[r].agentId = a}

\* The loops of session a that are blocked in requestPermission, the Task of
\* the call in awaiting_permission.
BlockedLoops(a) ==
  {l \in Loops :
     /\ loops[l].agentId = a
     /\ loops[l].pc = "requestPermission"
     /\ activeAgents[a].tasks[loops[l].taskId].status = "awaiting_permission"}

\* C39: at every suspension point the pending-request map and the resolver
\* map have the same keys; a session has a pending request exactly when one
\* of its loops is blocked in requestPermission with its current Task in
\* awaiting_permission (each pending request is the one of such a loop), and
\* a session with a single loop has at most one pending request.
C39_PendingRequestsMatchBlockedLoops ==
  /\ DOMAIN pendingPermissions = DOMAIN permissionResolvers
  /\ \A r \in DOMAIN pendingPermissions :
       /\ pendingPermissions[r].agentId \in DOMAIN activeAgents
       /\ permissionResolvers[r] \in BlockedLoops(pendingPermissions[r].agentId)
       /\ loops[permissionResolvers[r]].requestId = r
  /\ \A a \in DOMAIN activeAgents :
       /\ (PendingOf(a) # {}) <=> (BlockedLoops(a) # {})
       /\ Cardinality(PendingOf(a)) = Cardinality(BlockedLoops(a))
       /\ Cardinality({l \in Loops : loops[l].agentId = a}) = 1 =>
            Cardinality(PendingOf(a)) <= 1

\* The single loop of a session waits on its second permission request, the
\* first one having been resolved and removed from both maps.
C39_Witness ==
  \E a \in DOMAIN activeAgents :
    /\ Cardinality({l \in Loops : loops[l].agentId = a}) = 1
    /\ Cardinality(PendingOf(a)) = 1
    /\ BlockedLoops(a) # {}
    /\ \E x \in resolved :
          x.agentId = a /\ x.id \notin DOMAIN permissionResolvers

====
